---- MODULE Spec2Model ----
\* Model of the CTFdPy request/response contract layer:
\*   utils.admin_only          (the non-admin cache and the call wrapper)
\*   api.API.handle_response   (status classification and envelope unwrap)
\*   api.FilesAPI / HintsAPI   (the resource methods built on both)
EXTENDS Integers, Sequences, FiniteSets, TLC

\* ------------------------------------------------------------------
\* Bounds
\* ------------------------------------------------------------------
\* largest entity id used in a request or handed out in a response
MaxId == 1
\* longest array a list endpoint returns
MaxListLen == 2

\* ------------------------------------------------------------------
\* Python and JSON values
\* ------------------------------------------------------------------
\* an optional Python value: None, or Some(x) for the value x
None == <<>>
Some(x) == <<x>>
\* the value of an optional that is not None
Val(opt) == opt[1]

\* a key that a JSON object does not have
Absent == [t |-> "absent"]
JNull == [t |-> "null"]
JBool(b) == [t |-> "bool", b |-> b]
JStr(s) == [t |-> "str", s |-> s]
\* a JSON array of strings (the envelope's errors)
JList(items) == [t |-> "list", items |-> items]
\* a JSON array of raw entities (the envelope's data of a list endpoint)
JArr(elems) == [t |-> "array", elems |-> elems]
\* a JSON object holding one raw entity (the envelope's data)
JObj(o) == [t |-> "obj", o |-> o]

\* Python truthiness of a decoded JSON value (`not x`, `x or y`)
Truthy(v) ==
    CASE v.t = "absent" -> FALSE
      [] v.t = "null" -> FALSE
      [] v.t = "bool" -> v.b
      [] v.t = "str" -> v.s # ""
      [] v.t = "list" -> v.items # <<>>
      [] v.t = "array" -> v.elems # <<>>
      [] v.t = "obj" -> DOMAIN v.o # {}

\* the default Flask 403 message admin_only looks for
GenericMessage == "You don't have the permission to access the requested resource. It is either read-protected or not readable by the server."

\* ------------------------------------------------------------------
\* Response bodies
\* ------------------------------------------------------------------
\* a body response.json() cannot parse (empty, HTML, truncated)
InvalidBody == [parse |-> "invalid"]
\* the JSON document null
NullBody == [parse |-> "null"]
\* a non-empty JSON array as the whole document
ArrayBody == [parse |-> "array"]
\* a JSON object; each envelope key is Absent or a JSON value
ObjBody(s, e, m, d) ==
    [parse |-> "object", success |-> s, errors |-> e, message |-> m, data |-> d]

\* Python truthiness of what response.json() returned
BodyTruthy(body) ==
    CASE body.parse = "null" -> FALSE
      [] body.parse = "array" -> TRUE
      [] body.parse = "object" ->
            \/ body.success # Absent
            \/ body.errors # Absent
            \/ body.message # Absent
            \/ body.data # Absent

\* ------------------------------------------------------------------
\* Exceptions (ctfdpy.exceptions) and outcomes of a call
\* ------------------------------------------------------------------
\* the response attribute of an exception raised without one
NoResponse == [t |-> "none"]

\* a CTFdpyRequestException (or subclass) carrying a response
RequestException(kind, response) == [kind |-> kind, response |-> response]
\* any other exception, identified by its class
Raise(kind) == [kind |-> kind]
\* a normal return
Return(value) == [kind |-> "ok", value |-> value]

\* the subclasses of CTFdpyRequestException, itself included
RequestExceptionKinds ==
    { "CTFdpyRequestException", "CTFdpyBadRequestException",
      "CTFdpyUnauthorizedException", "CTFdpyNotFoundException",
      "CTFdpyAdminOnlyException" }

\* ------------------------------------------------------------------
\* API.handle_response
\* ------------------------------------------------------------------
\* the 2xx guard with its upper bound included
IsSuccessStatus_Inclusive(code) == 200 <= code /\ code <= 300

\* `case code if 200 <= code < 300`
IsSuccessStatus(code) == 200 <= code /\ code < 300

\* the envelope unwrap after the match statement
unwrap_envelope(response) ==
    LET data == response.body IN
    IF data.parse = "invalid" THEN Raise("JSONDecodeError")
    ELSE IF data.parse \in {"null", "array"} THEN Raise("TypeError")
    ELSE IF data.success = Absent THEN Raise("KeyError")
    ELSE IF ~Truthy(data.success) THEN
        IF Truthy(data.errors) THEN [kind |-> "Exception", arg |-> data.errors]
        ELSE IF data.message = Absent THEN Raise("KeyError")
        ELSE [kind |-> "Exception", arg |-> data.message]
    ELSE Return(data)

handle_response(response) ==
    LET code == response.status_code IN
    IF IsSuccessStatus(code) THEN unwrap_envelope(response)
    ELSE IF code = 400 THEN RequestException("CTFdpyBadRequestException", response)
    ELSE IF code = 403 THEN RequestException("CTFdpyUnauthorizedException", response)
    ELSE IF code = 404 THEN RequestException("CTFdpyNotFoundException", response)
    ELSE RequestException("CTFdpyRequestException", response)

\* session.get/post/patch/delete followed by handle_response; tr is what
\* the transport produced: a response, or a fault raised by httpx
send(tr) ==
    IF tr.t = "fault" THEN Raise("httpx.TransportError")
    ELSE handle_response(tr)

\* ------------------------------------------------------------------
\* Entity decoding
\* ------------------------------------------------------------------
FileTypes == {"standard", "challenge", "page"}

\* the failure pydantic raises when validate_python / model_validate rejects
ValidationFailure == Raise("pydantic.ValidationError")

\* alias choices that prefer the second key
AliasChoices_SecondFirst(raw, first, second) ==
    IF second \in DOMAIN raw THEN Some(second)
    ELSE IF first \in DOMAIN raw THEN Some(first)
    ELSE None

\* AliasChoices(first, second): the first key the raw object has
AliasChoices(raw, first, second) ==
    IF first \in DOMAIN raw THEN Some(first)
    ELSE IF second \in DOMAIN raw THEN Some(second)
    ELSE None

\* the fields every file variant declares (BaseFile)
BaseFileFields == {"id", "type", "location", "sha1sum"}

\* the union with objects that lack "type" taken for standard files
file_adapter_DefaultStandard(v) ==
    IF v.t # "obj" THEN ValidationFailure
    ELSE LET raw == IF "type" \in DOMAIN v.o THEN v.o ELSE v.o @@ ("type" :> "standard") IN
    IF "type" \notin DOMAIN raw THEN ValidationFailure
    ELSE IF raw.type \notin FileTypes THEN ValidationFailure
    ELSE IF ~(BaseFileFields \subseteq DOMAIN raw) THEN ValidationFailure
    ELSE IF raw.type = "standard" THEN
        Return([cls |-> "StandardFile", id |-> raw.id, type |-> raw.type,
                location |-> raw.location, sha1sum |-> raw.sha1sum])
    ELSE IF raw.type = "challenge" THEN
        LET key == AliasChoices(raw, "challenge_id", "challenge") IN
        IF key = None THEN ValidationFailure
        ELSE Return([cls |-> "ChallengeFile", id |-> raw.id, type |-> raw.type,
                     location |-> raw.location, sha1sum |-> raw.sha1sum,
                     challenge_id |-> raw[Val(key)]])
    ELSE
        LET key == AliasChoices(raw, "page_id", "page") IN
        IF key = None THEN ValidationFailure
        ELSE Return([cls |-> "PageFile", id |-> raw.id, type |-> raw.type,
                     location |-> raw.location, sha1sum |-> raw.sha1sum,
                     page_id |-> raw[Val(key)]])

\* file_adapter.validate_python(v): a union discriminated by "type"
file_adapter(v) ==
    IF v.t # "obj" THEN ValidationFailure
    ELSE LET raw == v.o IN
    IF "type" \notin DOMAIN raw THEN ValidationFailure
    ELSE IF raw.type \notin FileTypes THEN ValidationFailure
    ELSE IF ~(BaseFileFields \subseteq DOMAIN raw) THEN ValidationFailure
    ELSE IF raw.type = "standard" THEN
        Return([cls |-> "StandardFile", id |-> raw.id, type |-> raw.type,
                location |-> raw.location, sha1sum |-> raw.sha1sum])
    ELSE IF raw.type = "challenge" THEN
        LET key == AliasChoices(raw, "challenge_id", "challenge") IN
        IF key = None THEN ValidationFailure
        ELSE Return([cls |-> "ChallengeFile", id |-> raw.id, type |-> raw.type,
                     location |-> raw.location, sha1sum |-> raw.sha1sum,
                     challenge_id |-> raw[Val(key)]])
    ELSE
        LET key == AliasChoices(raw, "page_id", "page") IN
        IF key = None THEN ValidationFailure
        ELSE Return([cls |-> "PageFile", id |-> raw.id, type |-> raw.type,
                     location |-> raw.location, sha1sum |-> raw.sha1sum,
                     page_id |-> raw[Val(key)]])

\* the fields a locked hint must carry
LockedHintFields == {"id", "type", "challenge_id", "cost"}

\* LockedHint.model_validate(v)
LockedHint_model_validate(v) ==
    IF v.t # "obj" THEN ValidationFailure
    ELSE LET raw == v.o IN
    IF ~(LockedHintFields \subseteq DOMAIN raw) THEN ValidationFailure
    ELSE Return([cls |-> "LockedHint", id |-> raw.id, type |-> raw.type,
                 challenge_id |-> raw.challenge_id, cost |-> raw.cost])

\* the fields an unlocked hint must carry: those of a locked hint and content
UnlockedHintFields == LockedHintFields \cup {"content"}

\* the fields a full hint must carry: content and the edit field requirements
HintFields == UnlockedHintFields \cup {"requirements"}

\* Model.model_validate(v) of a hint model that requires the given fields;
\* unknown keys are kept (extra="allow"), never refused
HintModel_validate(cls, fields, v) ==
    IF v.t # "obj" THEN ValidationFailure
    ELSE LET raw == v.o IN
    IF ~(fields \subseteq DOMAIN raw) THEN ValidationFailure
    ELSE Return([cls |-> cls, fields |-> [k \in fields |-> raw[k]]])

\* Hint.model_validate(v)
Hint_model_validate(v) == HintModel_validate("Hint", HintFields, v)

\* UnlockedHint.model_validate(v)
UnlockedHint_model_validate(v) == HintModel_validate("UnlockedHint", UnlockedHintFields, v)

\* the union tried from its last member to its first
hint_adapter_LockedFirst(v) ==
    IF LockedHint_model_validate(v).kind = "ok" THEN LockedHint_model_validate(v)
    ELSE IF UnlockedHint_model_validate(v).kind = "ok" THEN UnlockedHint_model_validate(v)
    ELSE Hint_model_validate(v)

\* hint_adapter.validate_python(v): TypeAdapter(Hint | UnlockedHint | LockedHint),
\* the first member of the union that accepts v
hint_adapter(v) ==
    IF Hint_model_validate(v).kind = "ok" THEN Hint_model_validate(v)
    ELSE IF UnlockedHint_model_validate(v).kind = "ok" THEN UnlockedHint_model_validate(v)
    ELSE LockedHint_model_validate(v)

\* [decode(x) for x in data]: the elements in server order, or the first
\* failure; decoded is the sequence of the elements' outcomes
ListComprehension(decoded) ==
    IF \E i \in DOMAIN decoded : decoded[i].kind # "ok"
    THEN decoded[CHOOSE i \in DOMAIN decoded :
                    /\ decoded[i].kind # "ok"
                    /\ \A j \in 1..(i - 1) : decoded[j].kind = "ok"]
    ELSE Return([i \in DOMAIN decoded |-> decoded[i].value])

\* iterating result["data"]: a list yields its elements, None is not
\* iterable, a dict yields its keys (strings, which no model accepts)
DecodeFileList(data) ==
    CASE data.t = "array" ->
            ListComprehension([i \in DOMAIN data.elems |-> file_adapter(JObj(data.elems[i]))])
      [] data.t = "obj" ->
            IF DOMAIN data.o = {} THEN Return(<<>>) ELSE ValidationFailure
      [] OTHER -> Raise("TypeError")

DecodeHintList(data) ==
    CASE data.t = "array" ->
            ListComprehension([i \in DOMAIN data.elems |-> LockedHint_model_validate(JObj(data.elems[i]))])
      [] data.t = "obj" ->
            IF DOMAIN data.o = {} THEN Return(<<>>) ELSE ValidationFailure
      [] OTHER -> Raise("TypeError")

\* ------------------------------------------------------------------
\* Clients and the non-admin cache (utils.admin_only)
\* ------------------------------------------------------------------
\* Client(url, token, credentials): username is credentials[0]
Clients ==
    { [url |-> "http://a", token |-> Some("tokA"), username |-> "userA"],
      [url |-> "http://b", token |-> Some("tokA"), username |-> "userB"],
      [url |-> "http://a", token |-> None, username |-> "userB"] }

\* credentials that tell the servers of a token apart
CredentialsOf_PerServer(client) ==
    IF client.token # None /\ Val(client.token) # ""
    THEN (IF client.url = "http://a" THEN Val(client.token) ELSE client.url)
    ELSE client.username

\* `self.client.token or self.client.credentials[0]`
CredentialsOf(client) ==
    IF client.token # None /\ Val(client.token) # "" THEN Val(client.token)
    ELSE client.username

Credentials == { CredentialsOf(c) : c \in Clients }

\* the cache looked up by the token alone
IsNonAdmin_TokenOnly(client, cache) ==
    client.token # None /\ Val(client.token) \in cache

\* `credentials in _non_admins`
IsNonAdmin(client, cache) == CredentialsOf(client) \in cache

\* an except clause that catches every CTFdpyRequestException
IsCaught_AnyRequestException(outcome) == outcome.kind \in RequestExceptionKinds

\* `except CTFdpyUnauthorizedException`: the outcomes of f the wrapper handles
IsCaught(outcome) == outcome.kind = "CTFdpyUnauthorizedException"

\* the cache rebound to the one credential
AddNonAdmin_Replace(cache, credentials) == {credentials}

\* `_non_admins.add(credentials)`
AddNonAdmin(cache, credentials) == cache \cup {credentials}

\* the wrapped operation was not called
NotInvoked == [kind |-> "not_invoked"]
\* no request was built
NoRequest == [sent |-> FALSE]

\* the except clause of the wrapper: what is raised and the cache afterwards
handle_unauthorized(cache, credentials, e) ==
    LET response == e.response
        \* data = None; try: data = response.json(); except Exception: pass
        data == IF response.body.parse = "invalid" THEN NullBody ELSE response.body
    IN
    IF BodyTruthy(data) /\ data.parse # "object" THEN
        \* data.get on a list
        [outcome |-> Raise("AttributeError"), cache |-> cache]
    ELSE IF BodyTruthy(data) /\ data.message = JStr(GenericMessage) THEN
        [outcome |-> RequestException("CTFdpyAdminOnlyException", response),
         cache |-> cache]
    ELSE
        [outcome |-> e, cache |-> AddNonAdmin(cache, credentials)]

\* wrapper(self, *args, **kwargs); inner is what f does when it is called:
\* its outcome, the number of requests it sends and the request it builds
admin_only(cache, client, inner) ==
    IF IsNonAdmin(client, cache) THEN
        [outcome |-> RequestException("CTFdpyAdminOnlyException", NoResponse),
         cache |-> cache, inner |-> NotInvoked, sent |-> 0, request |-> NoRequest]
    ELSE IF IsCaught(inner.outcome) THEN
        LET h == handle_unauthorized(cache, CredentialsOf(client), inner.outcome) IN
        [outcome |-> h.outcome, cache |-> h.cache, inner |-> inner.outcome,
         sent |-> inner.sent, request |-> inner.request]
    ELSE
        [outcome |-> inner.outcome, cache |-> cache, inner |-> inner.outcome,
         sent |-> inner.sent, request |-> inner.request]

\* the wrapper from its try statement on, for a caller that has passed the
\* cache test and whose wrapped method has returned or raised
wrapper_resume(cache, client, inner) ==
    IF IsCaught(inner.outcome) THEN
        handle_unauthorized(cache, CredentialsOf(client), inner.outcome)
    ELSE
        [outcome |-> inner.outcome, cache |-> cache]

\* ------------------------------------------------------------------
\* CreateFilePayload (models.files)
\* ------------------------------------------------------------------
\* one validation error of a pydantic ValidationError: where and what
FieldError(loc, msg) == [loc |-> loc, msg |-> msg]

\* a pydantic ValidationError with its errors()
ValidationError(errors) == [kind |-> "pydantic.ValidationError", errors |-> errors]

\* the keys CreateFilePayload reads its fields from; challenge_id declares
\* validation_alias=AliasChoices("challenge_id", "challenge"), page_id has
\* no alias (its Field is given `validate_alias`, which pydantic ignores)
UsedKeys(kwargs) ==
    LET key == AliasChoices(kwargs, "challenge_id", "challenge") IN
    ({"files", "type", "page_id", "location"} \cap DOMAIN kwargs)
        \cup (IF key = None THEN {} ELSE {Val(key)})

\* the value of an optional field: the key's value, or the default None
FieldOrNone(kwargs, key) == IF key \in DOMAIN kwargs THEN kwargs[key] ELSE None

\* the fields of the model as validated from the keyword arguments
PayloadFields(kwargs) ==
    LET key == AliasChoices(kwargs, "challenge_id", "challenge") IN
    [files |-> kwargs.files,
     type |-> IF "type" \in DOMAIN kwargs THEN Val(kwargs.type) ELSE "standard",
     challenge_id |-> IF key = None THEN None ELSE kwargs[Val(key)],
     page_id |-> FieldOrNone(kwargs, "page_id"),
     location |-> FieldOrNone(kwargs, "location")]

\* the errors of the field validation: a missing required field, a type
\* outside FileType, a key the model does not declare (extra="forbid")
FieldErrors(kwargs) ==
    (IF "files" \in DOMAIN kwargs THEN {}
     ELSE {FieldError("files", "Field required")})
    \cup (IF "type" \in DOMAIN kwargs
             /\ (kwargs.type = None \/ Val(kwargs.type) \notin FileTypes)
          THEN {FieldError("type", "Input should be 'standard', 'challenge' or 'page'")}
          ELSE {})
    \cup { FieldError(k, "Extra inputs are not permitted") :
             k \in DOMAIN kwargs \ UsedKeys(kwargs) }

\* check_file_type without the page_id test of challenge files
check_file_type_NoPageTest(self) ==
    CASE self.type = "standard" ->
            IF self.challenge_id # None \/ self.page_id # None
            THEN Some("Challenge ID and page ID must be None for standard files")
            ELSE None
      [] self.type = "challenge" ->
            IF self.challenge_id = None
            THEN Some("Challenge ID must be provided for challenge files")
            ELSE None
      [] self.type = "page" ->
            IF self.page_id = None
            THEN Some("Page ID must be provided for page files")
            ELSE IF self.challenge_id # None
            THEN Some("Challenge ID must be None for page files")
            ELSE None

\* the after-validator check_file_type: the ValueError it raises, or None
check_file_type(self) ==
    CASE self.type = "standard" ->
            IF self.challenge_id # None \/ self.page_id # None
            THEN Some("Challenge ID and page ID must be None for standard files")
            ELSE None
      [] self.type = "challenge" ->
            IF self.challenge_id = None
            THEN Some("Challenge ID must be provided for challenge files")
            ELSE IF self.page_id # None
            THEN Some("Page ID must be None for challenge files")
            ELSE None
      [] self.type = "page" ->
            IF self.page_id = None
            THEN Some("Page ID must be provided for page files")
            ELSE IF self.challenge_id # None
            THEN Some("Challenge ID must be None for page files")
            ELSE None

\* check_file_count refusing a location for a single file as well
check_file_count_AnyLocation(self) ==
    IF Len(self.files) = 0
    THEN Some("At least one file must be provided")
    ELSE IF Len(self.files) >= 1 /\ self.location # None
    THEN Some("Location cannot be specified when multiple files are provided")
    ELSE None

\* the after-validator check_file_count: the ValueError it raises, or None
check_file_count(self) ==
    IF Len(self.files) = 0
    THEN Some("At least one file must be provided")
    ELSE IF Len(self.files) > 1 /\ self.location # None
    THEN Some("Location cannot be specified when multiple files are provided")
    ELSE None

\* CreateFilePayload(**kwargs): field validation, then the after-validators
\* in the order the class defines them; the first one that raises ends it
CreateFilePayload(kwargs) ==
    IF FieldErrors(kwargs) # {} THEN ValidationError(FieldErrors(kwargs))
    ELSE LET self == PayloadFields(kwargs) IN
    IF check_file_type(self) # None
    THEN ValidationError({FieldError("", Val(check_file_type(self)))})
    ELSE IF check_file_count(self) # None
    THEN ValidationError({FieldError("", Val(check_file_count(self)))})
    ELSE Return(self)

\* json mode of a file content: bytes are decoded to str
JsonMode(content) ==
    IF content.py = "bytes" THEN [py |-> "str", v |-> content.v] ELSE content

\* one multipart part: the element ("file", file) of the "files" list
Part(name, file) == [name |-> name, file |-> [file EXCEPT !.content = JsonMode(@)]]

\* _model_ser with every part named after its position
model_ser_NumberedParts(self) ==
    [files |-> [i \in DOMAIN self.files |-> Part(IF i = 1 THEN "file" ELSE "file2", self.files[i])],
     data |-> [k \in {"type"} \cup { f \in {"challenge_id", "page_id", "location"} :
                                        self[f] # None }
                 |-> IF k = "type" THEN self.type ELSE Val(self[k])]]

\* the model serializer _model_ser, as model_dump(mode="json") returns it
model_ser(self) ==
    [files |-> [i \in DOMAIN self.files |-> Part("file", self.files[i])],
     data |-> [k \in {"type"} \cup { f \in {"challenge_id", "page_id", "location"} :
                                        self[f] # None }
                 |-> IF k = "type" THEN self.type ELSE Val(self[k])]]

\* payload.to_payload()
to_payload(self) == model_ser(self)

\* ------------------------------------------------------------------
\* FilesAPI.create
\* ------------------------------------------------------------------
\* Python's `a or b` on an optional integer: None and 0 are falsy
PyOr(a, b) == IF a # None /\ Val(a) # 0 THEN a ELSE b

\* the library's validation error, carrying the pydantic errors
CTFdpyModelValidationError(errors) ==
    [kind |-> "CTFdpyModelValidationError", errors |-> errors]

\* files after `files = files or []` and the loop over file_paths; a path
\* that does not exist raises FileNotFoundError
create_files(args) ==
    LET files == IF args.files = None THEN <<>> ELSE Val(args.files)
        paths == IF args.file_paths = None THEN <<>> ELSE Val(args.file_paths)
    IN
    IF \E i \in DOMAIN paths : ~paths[i].exists THEN Raise("FileNotFoundError")
    ELSE Return(files \o [i \in DOMAIN paths |->
                            [arity |-> 2, filename |-> paths[i].name,
                             content |-> [py |-> "file", v |-> paths[i].name]]])

\* the keyword arguments create passes to CreateFilePayload
create_kwargs(args, files) ==
    [files |-> files,
     type |-> args.type,
     challenge_id |-> PyOr(args.challenge_id, args.challenge),
     page_id |-> PyOr(args.page_id, args.page),
     location |-> args.location]

\* build_payload with the length test left to the model's validators
build_payload_ValidateFirst(args) ==
    LET files == create_files(args) IN
    IF files.kind # "ok" THEN files
    ELSE LET payload == CreateFilePayload(create_kwargs(args, files.value)) IN
         IF payload.kind = "pydantic.ValidationError"
         THEN CTFdpyModelValidationError(payload.errors)
         ELSE payload

\* the `if payload is None` block: the payload, or what it raises
build_payload(args) ==
    LET files == create_files(args) IN
    IF files.kind # "ok" THEN files
    ELSE IF Len(files.value) = 0 THEN Raise("ValueError")
    ELSE LET payload == CreateFilePayload(create_kwargs(args, files.value)) IN
         IF payload.kind = "pydantic.ValidationError"
         THEN CTFdpyModelValidationError(payload.errors)
         ELSE payload

\* self._post(endpoint, **keywords): `json` is a required parameter
post(keywords, tr) ==
    IF "json" \notin keywords
    THEN [outcome |-> Raise("TypeError"), sent |-> 0]
    ELSE [outcome |-> send(tr), sent |-> 1]

\* ------------------------------------------------------------------
\* Resource methods (the functions admin_only wraps)
\* ------------------------------------------------------------------
\* `if q is None != field is None`: Python chains the comparisons, so this
\* is `q is None and None != field and field is None`
QFieldMismatch(q, field) == (q = None) /\ (None # field) /\ (field = None)

\* the params dict: only the arguments that are not None; field rides on q
ListParams(named, q, field) ==
    LET keys == { k \in DOMAIN named : named[k] # None }
                    \cup (IF q # None THEN {"q", "field"} ELSE {})
    IN [k \in keys |-> IF k = "q" THEN Val(q)
                       ELSE IF k = "field" THEN field
                       ELSE Val(named[k])]

\* result["data"], where result is what _get returned or raised
ResultData(result) ==
    IF result.kind # "ok" THEN result
    ELSE IF result.value.data = Absent THEN Raise("KeyError")
    ELSE Return(result.value.data)

FilesAPI_list(type, location, q, field, tr) ==
    IF QFieldMismatch(q, field) THEN
        [outcome |-> Raise("ValueError"), sent |-> 0, request |-> NoRequest]
    ELSE
        [outcome |-> LET data == ResultData(send(tr)) IN
                     IF data.kind # "ok" THEN data ELSE DecodeFileList(data.value),
         sent |-> 1,
         request |-> [sent |-> TRUE, method |-> "GET", path |-> "/api/v1/files",
                      params |-> ListParams([type |-> type, location |-> location], q, field)]]

FilesAPI_get(file_id, tr) ==
    [outcome |-> LET data == ResultData(send(tr)) IN
                 IF data.kind # "ok" THEN data ELSE file_adapter(data.value),
     sent |-> 1,
     request |-> [sent |-> TRUE, method |-> "GET", path |-> "/api/v1/files/{id}",
                  id |-> file_id]]

FilesAPI_delete(file_id, tr) ==
    LET result == send(tr) IN
    [outcome |-> IF result.kind # "ok" THEN result ELSE Return(result.value.success),
     sent |-> 1,
     request |-> [sent |-> TRUE, method |-> "DELETE", path |-> "/api/v1/files/{id}",
                  id |-> file_id]]

\* FilesAPI.create: build the payload, post it, decode the list returned
FilesAPI_create(args, tr) ==
    LET payload == IF args.payload # None THEN Return(Val(args.payload))
                   ELSE build_payload(args)
    IN
    IF payload.kind # "ok" THEN
        [outcome |-> payload, sent |-> 0, request |-> NoRequest]
    ELSE
        LET keywords == {"headers"} \cup DOMAIN to_payload(payload.value)
            result == post(keywords, tr)
        IN
        [outcome |-> LET data == ResultData(result.outcome) IN
                     IF data.kind # "ok" THEN data ELSE DecodeFileList(data.value),
         sent |-> result.sent,
         request |-> IF result.sent = 0 THEN NoRequest
                     ELSE [sent |-> TRUE, method |-> "POST", path |-> "/api/v1/files",
                           body |-> to_payload(payload.value)]]

HintsAPI_list(type, challenge_id, content, cost, q, field, tr) ==
    IF QFieldMismatch(q, field) THEN
        [outcome |-> Raise("ValueError"), sent |-> 0, request |-> NoRequest]
    ELSE
        [outcome |-> LET data == ResultData(send(tr)) IN
                     IF data.kind # "ok" THEN data ELSE DecodeHintList(data.value),
         sent |-> 1,
         request |-> [sent |-> TRUE, method |-> "GET", path |-> "/api/v1/hints",
                      params |-> ListParams([type |-> type, challenge_id |-> challenge_id,
                                          content |-> content, cost |-> cost],
                                         q, field)]]

\* HintsAPI.get: the entity is decoded by the union adapter
HintsAPI_get(hint_id, tr) ==
    [outcome |-> LET data == ResultData(send(tr)) IN
                 IF data.kind # "ok" THEN data ELSE hint_adapter(data.value),
     sent |-> 1,
     request |-> [sent |-> TRUE, method |-> "GET", path |-> "/api/v1/hints/{id}",
                  id |-> hint_id]]

\* the errors of the fields of a hint payload that are given: cost is not
\* negative, content is not empty
HintFieldErrors(kwargs) ==
    (IF "cost" \in DOMAIN kwargs /\ kwargs.cost # None /\ Val(kwargs.cost) < 0
     THEN {FieldError("cost", "Input should be greater than or equal to 0")} ELSE {})
    \cup (IF "content" \in DOMAIN kwargs /\ kwargs.content # None /\ Val(kwargs.content) = ""
          THEN {FieldError("content", "String should have at least 1 character")} ELSE {})
    \cup { FieldError(k, "Extra inputs are not permitted") :
             k \in DOMAIN kwargs \ {"challenge_id", "content", "cost", "type", "requirements"} }

\* CreateHintPayload(**kwargs): challenge_id, content and cost are required
CreateHintPayload(kwargs) ==
    LET errors == HintFieldErrors(kwargs)
                    \cup { FieldError(k, "Field required") :
                             k \in { f \in {"challenge_id", "content", "cost"} :
                                       f \notin DOMAIN kwargs \/ kwargs[f] = None } }
    IN IF errors # {} THEN ValidationError(errors) ELSE Return(kwargs)

\* UpdateHintPayload(**kwargs): any subset of the fields
UpdateHintPayload(kwargs) ==
    IF HintFieldErrors(kwargs) # {} THEN ValidationError(HintFieldErrors(kwargs))
    ELSE Return(kwargs)

\* the envelope as the dict handle_response returned
EnvelopeObject(data) ==
    JObj([k \in { f \in {"success", "errors", "message", "data"} : data[f] # Absent }
            |-> data[k]])

\* the library's error in place of pydantic's, any other outcome unchanged
except_ValidationError(payload) ==
    IF payload.kind = "pydantic.ValidationError"
    THEN CTFdpyModelValidationError(payload.errors)
    ELSE payload

\* a hint method that posts its payload before it has validated it
hint_request_Unvalidated(method, path, payload, tr) ==
    LET result == post({"json"}, tr) IN
    [outcome |-> IF result.outcome.kind # "ok" THEN result.outcome
                 ELSE IF payload.kind # "ok" THEN payload
                 ELSE Hint_model_validate(EnvelopeObject(result.outcome.value)),
     sent |-> result.sent,
     request |-> [sent |-> TRUE, method |-> method, path |-> path]]

\* the common end of hints.create and hints.update: nothing is sent unless
\* the payload was built; the result handed to Hint.model_validate is the
\* envelope
hint_request(method, path, payload, tr) ==
    IF payload.kind # "ok" THEN
        [outcome |-> payload, sent |-> 0, request |-> NoRequest]
    ELSE
        LET result == post({"json"}, tr) IN
        [outcome |-> IF result.outcome.kind # "ok" THEN result.outcome
                     ELSE Hint_model_validate(EnvelopeObject(result.outcome.value)),
         sent |-> result.sent,
         request |-> [sent |-> TRUE, method |-> method, path |-> path,
                      json |-> payload.value]]

HintsAPI_create(args, tr) ==
    hint_request("POST", "/api/v1/hints",
                 IF args.payload # None THEN Return(Val(args.payload))
                 ELSE except_ValidationError(CreateHintPayload(
                        [challenge_id |-> args.challenge_id, content |-> args.content,
                         cost |-> args.cost, type |-> args.type,
                         requirements |-> args.requirements])),
                 tr)

HintsAPI_update(hint_id, args, tr) ==
    hint_request("PATCH", "/api/v1/hints/{id}",
                 IF args.payload # None THEN Return(Val(args.payload))
                 ELSE except_ValidationError(UpdateHintPayload(args.kwargs)),
                 tr)

\* ------------------------------------------------------------------
\* What the transport can produce
\* ------------------------------------------------------------------
Fault == [t |-> "fault"]
Response(status, body) == [t |-> "response", status_code |-> status, body |-> body]

\* a 403 body of every shape the wrapper distinguishes
ForbiddenBodies ==
    { InvalidBody, NullBody, ArrayBody,
      ObjBody(Absent, Absent, Absent, Absent),
      ObjBody(Absent, Absent, JStr(GenericMessage), Absent),
      ObjBody(Absent, Absent, JStr("forbidden"), Absent),
      ObjBody(JBool(FALSE), JList(<<"bad">>), Absent, Absent) }

\* bodies of the other failure statuses
ErrorBodies == { InvalidBody, ObjBody(Absent, Absent, JStr(GenericMessage), Absent) }

\* the statuses outside 2xx, with the boundaries of the 2xx range
ErrorStatuses == {199, 300, 400, 401, 404, 500, 599}
SuccessStatuses == {200, 204, 299}

ErrorsValues == { Absent, JNull, JList(<<>>), JList(<<"bad">>) }
MessageValues == { Absent, JNull, JStr("failed") }

\* 2xx bodies that are not a success envelope
FailureBodies ==
    { InvalidBody, NullBody, ArrayBody, ObjBody(Absent, Absent, Absent, JNull) }
      \cup { ObjBody(JBool(FALSE), e, m, Absent) : e \in ErrorsValues, m \in MessageValues }

\* success envelopes around the data values of one endpoint
SuccessBodies(DataValues) ==
    { ObjBody(JBool(TRUE), Absent, Absent, d) : d \in DataValues \cup {Absent, JNull} }

TransportResults(DataValues) ==
    {Fault}
      \cup { Response(403, b) : b \in ForbiddenBodies }
      \cup { Response(st, b) : st \in ErrorStatuses, b \in ErrorBodies }
      \cup { Response(200, b) : b \in FailureBodies }
      \cup { Response(st, b) : st \in SuccessStatuses, b \in SuccessBodies(DataValues) }

Ids == 1..MaxId

\* raw file objects as the server sends them
RawFiles ==
    UNION { { [id |-> i, type |-> "standard", location |-> "a", sha1sum |-> "s"],
              [id |-> i, type |-> "challenge", location |-> "a", sha1sum |-> "s",
               challenge_id |-> 1, challenge |-> 2],
              [id |-> i, type |-> "page", location |-> "a", sha1sum |-> "s",
               page |-> 2],
              [id |-> i, location |-> "a", sha1sum |-> "s"] } : i \in Ids }

\* raw hint objects as the server sends them
RawHints ==
    UNION { { [id |-> i, type |-> "standard", challenge_id |-> 1, cost |-> 0],
              [id |-> i, type |-> "standard", challenge_id |-> 1] } : i \in Ids }

\* the sequences over S of length at most n
RECURSIVE SeqsUpTo(_, _)
SeqsUpTo(S, n) ==
    IF n = 0 THEN { <<>> }
    ELSE LET shorter == SeqsUpTo(S, n - 1) IN
         shorter \cup { Append(q, x) : q \in { r \in shorter : Len(r) = n - 1 }, x \in S }

\* the arrays a list endpoint returns, built from a valid and an invalid element
FileListData ==
    { JArr(q) : q \in SeqsUpTo({ r \in RawFiles :
                                    /\ r.id = 1
                                    /\ DOMAIN r \subseteq BaseFileFields
                                    /\ "type" \in DOMAIN r => r.type = "standard" },
                               MaxListLen) }
HintListData ==
    { JArr(q) : q \in SeqsUpTo({ r \in RawHints : r.id = 1 }, MaxListLen) }
FileData == { JObj(r) : r \in RawFiles }
HintData ==
    { JObj(r) : r \in RawHints \cup
        { [id |-> i, type |-> "standard", challenge_id |-> 1, cost |-> 0,
           content |-> "c", requirements |-> "r"] : i \in Ids } }

\* ------------------------------------------------------------------
\* State
\* ------------------------------------------------------------------
VARIABLES
    non_admins,   \* utils._non_admins
    generic403,   \* the credentials that were answered the generic 403 so far
    call          \* the current admin-gated call: arguments, response, outcome

vars == <<non_admins, generic403, call>>

NoCall == [phase |-> "none"]

Init ==
    /\ non_admins = {}
    /\ generic403 = {}
    /\ call = NoCall

\* what the wrapped function of an operation does with the transport's result
Inner(op, args, tr) ==
    CASE op = "files.list" ->
            FilesAPI_list(args.type, args.location, args.q, args.field, tr)
      [] op = "files.get" -> FilesAPI_get(args.file_id, tr)
      [] op = "files.delete" -> FilesAPI_delete(args.file_id, tr)
      [] op = "hints.list" ->
            HintsAPI_list(args.type, args.challenge_id, args.content, args.cost,
                          args.q, args.field, tr)
      [] op = "files.create" -> FilesAPI_create(args, tr)
      [] op = "hints.get" -> HintsAPI_get(args.hint_id, tr)
      [] op = "hints.create" -> HintsAPI_create(args, tr)
      [] op = "hints.update" -> HintsAPI_update(args.hint_id, args, tr)

\* the data values the endpoint of an operation can answer with
DataValues(op) ==
    CASE op = "files.list" -> FileListData
      [] op = "files.get" -> FileData
      [] op = "files.delete" -> {}
      [] op = "hints.list" -> HintListData
      [] op = "files.create" -> FileListData
      [] op \in {"hints.get", "hints.create", "hints.update"} -> HintData

\* the response is the generic 403
IsGeneric403(tr) ==
    /\ tr.t = "response"
    /\ tr.status_code = 403
    /\ tr.body.parse = "object"
    /\ tr.body.message = JStr(GenericMessage)

\* the call returns or raises: w is the wrapper's result, tr what the
\* transport answered (NoResponse when no request was sent)
Finish(op, client, args, before, seen, w, tr) ==
    /\ non_admins' = w.cache
    /\ generic403' = IF w.sent = 1 /\ IsGeneric403(tr)
                     THEN generic403 \cup {CredentialsOf(client)} ELSE generic403
    /\ call' = [phase |-> "done", op |-> op, client |-> client,
                credentials |-> CredentialsOf(client), args |-> args,
                before |-> before, genericBefore |-> seen,
                sent |-> w.sent, request |-> w.request,
                response |-> IF w.sent = 1 THEN tr ELSE NoResponse,
                inner |-> w.inner, outcome |-> w.outcome]

\* an admin-gated method is called: the wrapper looks at the cache, the
\* method validates its arguments and, unless one of them raised, hands the
\* request to the transport and waits for the answer
Begin(op, client, args) ==
    /\ call.phase # "awaiting"
    /\ LET w == admin_only(non_admins, client, Inner(op, args, Fault))
           seen == CredentialsOf(client) \in generic403
       IN IF w.sent = 0
          THEN Finish(op, client, args, non_admins, seen, w, NoResponse)
          ELSE /\ call' = [phase |-> "awaiting", op |-> op, client |-> client,
                           credentials |-> CredentialsOf(client), args |-> args,
                           before |-> non_admins, genericBefore |-> seen,
                           request |-> w.request]
               /\ UNCHANGED <<non_admins, generic403>>

\* the transport answers the pending request and the call runs to its end
Respond ==
    /\ call.phase = "awaiting"
    /\ \E tr \in TransportResults(DataValues(call.op)) :
        Finish(call.op, call.client, call.args, call.before, call.genericBefore,
               admin_only(non_admins, call.client, Inner(call.op, call.args, tr)), tr)

OptStrings(S) == {None} \cup { Some(x) : x \in S }

\* the filters of a list call: none of them, or all of them
FileFilters ==
    { [type |-> None, location |-> None],
      [type |-> Some("challenge"), location |-> Some("a")] }
HintFilters ==
    { [type |-> None, challenge_id |-> None, content |-> None, cost |-> None],
      [type |-> Some("standard"), challenge_id |-> Some(1), content |-> Some("c"),
       cost |-> Some(0)] }

FilesList ==
    \E client \in Clients, f \in FileFilters,
       q \in OptStrings({"foo"}), field \in OptStrings({"type"}) :
        Begin("files.list", client,
              [type |-> f.type, location |-> f.location, q |-> q, field |-> field])

FilesGet ==
    \E client \in Clients, file_id \in Ids :
        Begin("files.get", client, [file_id |-> file_id])

FilesDelete ==
    \E client \in Clients, file_id \in Ids :
        Begin("files.delete", client, [file_id |-> file_id])

HintsList ==
    \E client \in Clients, f \in HintFilters,
       q \in OptStrings({"foo"}), field \in OptStrings({"content"}) :
        Begin("hints.list", client,
              [type |-> f.type, challenge_id |-> f.challenge_id, content |-> f.content,
               cost |-> f.cost, q |-> q, field |-> field])

\* files.create called with keyword arguments: nothing but a type, a file for
\* a challenge with and without its id, a file for a page given by alias, two
\* files with a location, a file path that does not exist
NoCreateArgs ==
    [payload |-> None, files |-> None, file_paths |-> None, type |-> None,
     challenge_id |-> None, challenge |-> None, page_id |-> None, page |-> None,
     location |-> None]
OneFile == Some(<<[arity |-> 1, content |-> [py |-> "bytes", v |-> "a"]]>>)
TwoFiles ==
    Some(<<[arity |-> 1, content |-> [py |-> "bytes", v |-> "a"]],
           [arity |-> 2, filename |-> "n", content |-> [py |-> "str", v |-> "b"]]>>)
CreateCalls ==
    { [NoCreateArgs EXCEPT !.type = Some("standard")],
      [NoCreateArgs EXCEPT !.files = OneFile, !.type = Some("challenge")],
      [NoCreateArgs EXCEPT !.files = OneFile, !.type = Some("challenge"),
                           !.challenge_id = Some(1)],
      [NoCreateArgs EXCEPT !.files = OneFile, !.type = Some("page"), !.page = Some(2)],
      [NoCreateArgs EXCEPT !.files = TwoFiles, !.type = Some("standard"),
                           !.location = Some("loc")],
      [NoCreateArgs EXCEPT !.file_paths = Some(<<[name |-> "p", exists |-> FALSE]>>),
                           !.type = Some("standard")] }

FilesCreate ==
    \E client \in Clients, args \in CreateCalls :
        Begin("files.create", client, args)

HintsGet ==
    \E client \in Clients, hint_id \in Ids :
        Begin("hints.get", client, [hint_id |-> hint_id])

\* hints.create with every field, without a content, with a negative cost
HintCreateCalls ==
    { [payload |-> None, challenge_id |-> Some(1), content |-> c, cost |-> k,
       type |-> Some("standard"), requirements |-> None] :
        c \in {None, Some("c")}, k \in {Some(0), Some(-1)} }

HintsCreate ==
    \E client \in Clients, args \in HintCreateCalls :
        Begin("hints.create", client, args)

\* hints.update with a cost, with an empty content, with an unknown keyword
HintUpdateCalls ==
    { [cost |-> Some(0)], [content |-> Some("")], [points |-> Some(0)] }

HintsUpdate ==
    \E client \in Clients, hint_id \in Ids, kwargs \in HintUpdateCalls :
        Begin("hints.update", client,
              [hint_id |-> hint_id, payload |-> None, kwargs |-> kwargs])

Next ==
    \/ FilesList
    \/ FilesGet
    \/ FilesDelete
    \/ HintsList
    \/ FilesCreate
    \/ HintsGet
    \/ HintsCreate
    \/ HintsUpdate
    \/ Respond

Spec == Init /\ [][Next]_vars

\* ------------------------------------------------------------------
\* Payload construction: CreateFilePayload(**kwargs) over bounded inputs
\* ------------------------------------------------------------------
\* the longest list of files
MaxFiles == 2

\* file contents: bytes or str
Bytes(v) == [py |-> "bytes", v |-> v]
Str(v) == [py |-> "str", v |-> v]

\* MultipartFileTypes: bare content, or a tuple that starts with a filename
FileSpecs ==
    { [arity |-> 1, content |-> Bytes("a")],
      [arity |-> 2, filename |-> "n", content |-> Str("b")] }

FileLists == SeqsUpTo(FileSpecs, MaxFiles)

\* a keyword argument that is left out, or given with one of the values
KeywordChoices(key, values) == { <<>> } \cup { key :> v : v \in values }

\* the keyword arguments CreateFilePayload is constructed from
PayloadKwargs ==
    { f @@ t @@ c @@ ca @@ p @@ pa @@ l :
        f \in KeywordChoices("files", FileLists),
        t \in KeywordChoices("type", {None} \cup { Some(x) : x \in FileTypes \cup {"other"} }),
        c \in KeywordChoices("challenge_id", {None, Some(0), Some(1)}),
        ca \in KeywordChoices("challenge", {None, Some(2)}),
        p \in KeywordChoices("page_id", {None, Some(0), Some(1)}),
        pa \in KeywordChoices("page", {None, Some(2)}),
        l \in KeywordChoices("location", {None, Some("loc")}) }

\* file paths: none given, an empty list, a file that exists, one that does not
FilePathLists ==
    { None, Some(<<>>), Some(<<[name |-> "p", exists |-> TRUE]>>),
      Some(<<[name |-> "p", exists |-> FALSE]>>) }

\* the keyword arguments of files.create, `payload` left out
CreateArgs ==
    [payload : {None},
     files : {None} \cup { Some(f) : f \in FileLists },
     file_paths : FilePathLists,
     type : {None} \cup { Some(x) : x \in FileTypes },
     challenge_id : {None, Some(0), Some(1)},
     challenge : {None, Some(0), Some(2)},
     page_id : {None, Some(0), Some(1)},
     page : {None, Some(0), Some(2)},
     location : {None, Some("loc")}]

InitPayload ==
    /\ non_admins = {}
    /\ generic403 = {}
    /\ call \in { [phase |-> "input", via |-> "CreateFilePayload", kwargs |-> k] :
                    k \in PayloadKwargs }
                \cup { [phase |-> "input", via |-> "files.create", args |-> a] :
                         a \in CreateArgs }

\* payload = CreateFilePayload(**kwargs)
Construct ==
    /\ call.phase = "input"
    /\ call.via = "CreateFilePayload"
    /\ call' = [phase |-> "payload", via |-> call.via, kwargs |-> call.kwargs,
                result |-> CreateFilePayload(call.kwargs)]
    /\ UNCHANGED <<non_admins, generic403>>

\* files.create(**args) up to the request: the payload it builds, and the
\* outcome of the whole method when the transport is down
Create ==
    /\ call.phase = "input"
    /\ call.via = "files.create"
    /\ call' = [phase |-> "payload", via |-> call.via, args |-> call.args,
                result |-> build_payload(call.args),
                method |-> FilesAPI_create(call.args, Fault)]
    /\ UNCHANGED <<non_admins, generic403>>

\* payload.to_payload() of a payload that was built
Serialize ==
    /\ call.phase = "payload"
    /\ call.result.kind = "ok"
    /\ call' = [phase |-> "serialized", via |-> call.via,
                supplied |-> IF call.via = "files.create" THEN call.args ELSE call.kwargs,
                payload |-> call.result.value,
                output |-> to_payload(call.result.value)]
    /\ UNCHANGED <<non_admins, generic403>>

NextPayload ==
    \/ Construct
    \/ Create
    \/ Serialize

SpecPayload == InitPayload /\ [][NextPayload]_vars

\* ------------------------------------------------------------------
\* Concurrent callers under one credential
\* ------------------------------------------------------------------
\* the number of callers
MaxCallers == 3

Callers == 1..MaxCallers

\* the clients that share the token tokA; callers alternate between them
SharedCredential == "tokA"
ClientOf(c) ==
    CHOOSE client \in Clients :
        /\ CredentialsOf(client) = SharedCredential
        /\ client.url = IF c % 2 = 1 THEN "http://a" ELSE "http://b"

\* what the server answers a caller: the generic 403, another 403, a file
ConcurrentResults ==
    { Response(403, ObjBody(Absent, Absent, JStr(GenericMessage), Absent)),
      Response(403, ObjBody(Absent, Absent, JStr("forbidden"), Absent)),
      Response(200, ObjBody(JBool(TRUE), Absent, Absent,
                            JObj([id |-> 1, type |-> "standard", location |-> "a",
                                  sha1sum |-> "s"]))) }

\* a caller: where it is, whether it found the credential cached, whether it
\* sent a request and got a 403, how it ended, whether it made the first
\* insert and how many calls were in flight then
Caller(phase, cached, sent, forbidden, outcome, inserted, inflight) ==
    [phase |-> phase, cached |-> cached, sent |-> sent, forbidden |-> forbidden,
     outcome |-> outcome, inserted |-> inserted, inflight |-> inflight]

InitConcurrent ==
    /\ non_admins = {}
    /\ generic403 = {}
    /\ call = [c \in Callers |-> Caller("idle", FALSE, 0, FALSE, "none", FALSE, 0)]

\* a caller enters the wrapper: it tests the cache and, when the credential
\* is not in it, calls files.get, which sends its request and waits
Enter(c) ==
    /\ call[c].phase = "idle"
    /\ LET w == admin_only(non_admins, ClientOf(c), FilesAPI_get(1, Fault)) IN
       call' = [call EXCEPT ![c] =
                  IF w.sent = 0
                  THEN Caller("done", TRUE, 0, FALSE, w.outcome.kind, FALSE, 0)
                  ELSE Caller("inflight", FALSE, 1, FALSE, "none", FALSE, 0)]
    /\ UNCHANGED <<non_admins, generic403>>

\* the transport answers a caller in flight, which runs the rest of the
\* wrapper on the cache as it is now
Answer(c) ==
    /\ call[c].phase = "inflight"
    /\ \E tr \in ConcurrentResults :
        LET w == wrapper_resume(non_admins, ClientOf(c), FilesAPI_get(1, tr))
            first == SharedCredential \notin non_admins /\ SharedCredential \in w.cache
        IN
        /\ non_admins' = w.cache
        /\ generic403' = IF IsGeneric403(tr)
                         THEN generic403 \cup {SharedCredential} ELSE generic403
        /\ call' = [call EXCEPT ![c] =
                      Caller("done", FALSE, 1, tr.status_code = 403, w.outcome.kind, first,
                             IF first
                             THEN Cardinality({ d \in Callers : call[d].phase = "inflight" })
                             ELSE 0)]

NextConcurrent ==
    \/ \E c \in Callers : Enter(c)
    \/ \E c \in Callers : Answer(c)

SpecConcurrent == InitConcurrent /\ [][NextConcurrent]_vars

\* ------------------------------------------------------------------
\* Several client instances in one process
\* ------------------------------------------------------------------
\* the number of client instances, each making one call
MaxInstances == 3

Instances == 1..MaxInstances

\* an instance: its client, where its call is, the instances whose call had
\* left their credential in the cache when this one entered, whether it sent
\* a request, how it ended, whether its own call left its credential cached
Instance(client, phase, seen, sent, outcome, inserted) ==
    [client |-> client, phase |-> phase, seen |-> seen, sent |-> sent,
     outcome |-> outcome, inserted |-> inserted]

InitShared ==
    /\ non_admins = {}
    /\ generic403 = {}
    /\ call \in [Instances -> { Instance(client, "idle", {}, 0, "none", FALSE) :
                                  client \in Clients }]

\* an instance calls files.get: the wrapper tests the process-wide cache
EnterShared(i) ==
    /\ call[i].phase = "idle"
    /\ LET w == admin_only(non_admins, call[i].client, FilesAPI_get(1, Fault))
           seen == { j \in Instances : call[j].inserted }
       IN call' = [call EXCEPT ![i] =
                     IF w.sent = 0
                     THEN Instance(call[i].client, "done", seen, 0, w.outcome.kind, FALSE)
                     ELSE Instance(call[i].client, "inflight", seen, 1, "none", FALSE)]
    /\ UNCHANGED <<non_admins, generic403>>

\* the transport answers an instance in flight
AnswerShared(i) ==
    /\ call[i].phase = "inflight"
    /\ \E tr \in ConcurrentResults :
        LET w == wrapper_resume(non_admins, call[i].client, FilesAPI_get(1, tr)) IN
        /\ non_admins' = w.cache
        /\ generic403' = IF IsGeneric403(tr)
                         THEN generic403 \cup {CredentialsOf(call[i].client)}
                         ELSE generic403
        /\ call' = [call EXCEPT ![i] =
                      Instance(call[i].client, "done", call[i].seen, 1, w.outcome.kind,
                               w.cache # non_admins)]

NextShared ==
    \/ \E i \in Instances : EnterShared(i)
    \/ \E i \in Instances : AnswerShared(i)

SpecShared == InitShared /\ [][NextShared]_vars

\* ------------------------------------------------------------------
\* TeamsAPI: admin-gated methods in blocking and non-blocking form
\* ------------------------------------------------------------------
\* the attributes an instance has: API.__init__ sets client, url and session,
\* TeamsAPI.__init__ sets _client only
AttributesOf(cls) ==
    IF cls = "TeamsAPI" THEN {"_client"} ELSE {"client", "url", "session"}

\* the body of TeamsAPI.create and async_create: validate the keyword
\* arguments, then hand the request to the client; a 403 is raised as the
\* unauthorized error
teams_create(args, tr) ==
    IF "name" \notin DOMAIN args \/ "password" \notin DOMAIN args THEN
        [outcome |-> CTFdpyModelValidationError(
                        { FieldError(k, "Field required") :
                            k \in {"name", "password"} \ DOMAIN args }),
         sent |-> 0, request |-> NoRequest]
    ELSE
        [outcome |-> send(tr), sent |-> 1,
         request |-> [sent |-> TRUE, method |-> "POST", path |-> "/api/v1/teams"]]

\* wrapper(self, ...) around a plain method of an instance of cls: the
\* credentials are read from self.client before anything else
gate_blocking(cls, cache, client, inner) ==
    IF "client" \notin AttributesOf(cls) THEN
        [outcome |-> Raise("AttributeError"), cache |-> cache, inner |-> NotInvoked,
         sent |-> 0, request |-> NoRequest]
    ELSE admin_only(cache, client, inner)

\* `await wrapper(self, ...)` around an `async def`: the wrapper is a plain
\* function, so f(self, ...) inside its try statement only creates the
\* coroutine and the wrapper returns it; the body runs when the caller awaits
\* it, outside the try statement, and what it raises reaches the caller as it
\* is, the cache untouched
gate_awaited(cls, cache, client, inner) ==
    IF "client" \notin AttributesOf(cls) THEN
        [outcome |-> Raise("AttributeError"), cache |-> cache, inner |-> NotInvoked,
         sent |-> 0, request |-> NoRequest]
    ELSE IF IsNonAdmin(client, cache) THEN
        [outcome |-> RequestException("CTFdpyAdminOnlyException", NoResponse),
         cache |-> cache, inner |-> NotInvoked, sent |-> 0, request |-> NoRequest]
    ELSE
        [outcome |-> inner.outcome, cache |-> cache, inner |-> inner.outcome,
         sent |-> inner.sent, request |-> inner.request]

\* the keyword arguments of a team: complete, or without a name
TeamArgs == { [name |-> "t", password |-> "p"], [password |-> "p"] }

\* what the server would answer the request of a team call
TeamResults == {Fault} \cup { Response(403, b) : b \in ForbiddenBodies }
                  \cup { Response(st, ObjBody(JBool(TRUE), Absent, Absent, JNull)) :
                           st \in {200, 400, 404} }

\* a team call about to be made: by whom, with what, how the server would
\* answer, and what the cache holds from earlier calls
InitTeams ==
    /\ non_admins \in SUBSET Credentials
    /\ generic403 = {}
    /\ call \in [phase : {"input"}, op : {"teams.create", "teams.async_create"},
                 client : Clients, args : TeamArgs, tr : TeamResults]

\* the call ends: op, the scenario and the wrapper's result w
TeamsDone(w) ==
    /\ non_admins' = w.cache
    /\ call' = [phase |-> "done", op |-> call.op, client |-> call.client,
                credentials |-> CredentialsOf(call.client), args |-> call.args,
                tr |-> call.tr, before |-> non_admins, sent |-> w.sent,
                inner |-> w.inner, outcome |-> w.outcome]
    /\ UNCHANGED generic403

\* teams.create(**args)
TeamsCreate ==
    /\ call.phase = "input"
    /\ call.op = "teams.create"
    /\ TeamsDone(gate_blocking("TeamsAPI", non_admins, call.client,
                               teams_create(call.args, call.tr)))

\* await teams.async_create(**args)
TeamsAsyncCreate ==
    /\ call.phase = "input"
    /\ call.op = "teams.async_create"
    /\ TeamsDone(gate_awaited("TeamsAPI", non_admins, call.client,
                              teams_create(call.args, call.tr)))

NextTeams ==
    \/ TeamsCreate
    \/ TeamsAsyncCreate

SpecTeams == InitTeams /\ [][NextTeams]_vars

\* ------------------------------------------------------------------
\* Properties
\* ------------------------------------------------------------------
Done == call.phase = "done"

\* the call sent its request and the transport answered with a response
Answered == Done /\ call.sent = 1 /\ call.response.t = "response"

\* the wrapped function failed with Unauthorized on a 403
Unauthorized403 == Answered /\ call.inner.kind = "CTFdpyUnauthorizedException"

\* C1: a call answered the generic 403 fails AdminOnlyRequired, and every
\* later call with a credential that was answered the generic 403 before
\* fails AdminOnlyRequired without a request.
C1_GenericThenShortCircuit ==
    Done =>
        /\ (Unauthorized403 /\ IsGeneric403(call.response)
                => call.outcome.kind = "CTFdpyAdminOnlyException")
        /\ (call.genericBefore
                => call.outcome.kind = "CTFdpyAdminOnlyException" /\ call.sent = 0)

\* C2: on a 403 with the generic message the call fails AdminOnlyRequired
\* and the credential is in the cache afterwards.
C2_GenericConvertsAndCaches ==
    Unauthorized403 /\ IsGeneric403(call.response)
        => /\ call.outcome.kind = "CTFdpyAdminOnlyException"
           /\ call.credentials \in non_admins

\* C3: a call whose credential is cached at entry fails AdminOnlyRequired,
\* the wrapped operation is not invoked and no request is sent, whatever
\* the operation and its arguments.
C3_ShortCircuit ==
    call.phase # "none" /\ call.credentials \in call.before
        => /\ Done
           /\ call.outcome = RequestException("CTFdpyAdminOnlyException", NoResponse)
           /\ call.inner = NotInvoked
           /\ call.sent = 0
           /\ call.request = NoRequest

\* a cached credential called a list operation with an unpaired q
C3_Witness ==
    /\ Done
    /\ call.credentials \in call.before
    /\ call.op = "files.list"
    /\ call.args.q # None
    /\ call.args.field = None

\* C4: on a 403 whose body is not the generic message the credential is
\* inserted into the cache and the original Unauthorized is re-raised.
C4_OtherForbiddenCachesAndReraises ==
    Unauthorized403 /\ ~IsGeneric403(call.response)
        => /\ call.credentials \in non_admins
           /\ call.outcome = RequestException("CTFdpyUnauthorizedException", call.response)

\* C5: with an uncached credential, an outcome of the wrapped operation
\* other than Unauthorized reaches the caller unchanged and the cache is
\* the same before and after the call.
C5_PassThrough ==
    (Done /\ call.credentials \notin call.before
          /\ call.inner.kind # "CTFdpyUnauthorizedException")
        => /\ call.outcome = call.inner
           /\ non_admins = call.before

\* a 404 that carries the generic message passed through
C5_Witness ==
    /\ Answered
    /\ call.credentials \notin call.before
    /\ call.inner.kind = "CTFdpyNotFoundException"
    /\ call.response.body = ObjBody(Absent, Absent, JStr(GenericMessage), Absent)
    /\ call.outcome = call.inner

\* C6: the cache starts empty, never loses an entry, and gains one only
\* when an admin-gated call handles a 403 (the entry is that call's
\* credential).
C6_CacheMonotone ==
    /\ non_admins = {}
    /\ [][ /\ non_admins \subseteq non_admins'
           /\ non_admins' # non_admins
                => /\ call'.phase = "done"
                   /\ call'.sent = 1
                   /\ call'.response.t = "response"
                   /\ call'.response.status_code = 403
                   /\ non_admins' = non_admins \cup {call'.credentials} ]_vars

\* both credentials are cached, the second insert kept the first
C6_Witness ==
    /\ Done
    /\ Cardinality(non_admins) = 2
    /\ Cardinality(call.before) = 1
    /\ call.before \subseteq non_admins

\* C7: every status is classified: 2xx goes on to the envelope unwrap,
\* 400 is BadRequest, 403 Unauthorized, 404 NotFound, anything else the
\* generic RequestError; each failure carries the response it classified.
C7_StatusClassification ==
    Answered =>
        LET st == call.response.status_code
            kind == IF st = 400 THEN "CTFdpyBadRequestException"
                    ELSE IF st = 403 THEN "CTFdpyUnauthorizedException"
                    ELSE IF st = 404 THEN "CTFdpyNotFoundException"
                    ELSE "CTFdpyRequestException"
        IN IF st \in 200..299
           THEN call.inner.kind \notin RequestExceptionKinds
           ELSE call.inner = [kind |-> kind, response |-> call.response]

\* a 599 answered to a call and classified as the generic RequestError
C7_Witness ==
    /\ Answered
    /\ call.response.status_code = 599
    /\ call.inner.kind = "CTFdpyRequestException"
    /\ call.inner.response = call.response

\* a 2xx answer whose envelope says success == false and carries errors
\* or a message
FailedEnvelope ==
    /\ Answered
    /\ call.response.status_code \in 200..299
    /\ call.response.body.parse = "object"
    /\ call.response.body.success = JBool(FALSE)
    /\ \/ Truthy(call.response.body.errors)
       \/ call.response.body.message.t = "str"

\* C8: a 2xx envelope with success == false fails with RequestError,
\* carrying errors when present and non-empty, message otherwise.
C8_FailedEnvelopeIsRequestError ==
    FailedEnvelope =>
        /\ call.inner.kind = "CTFdpyRequestException"
        /\ call.inner.arg = IF Truthy(call.response.body.errors)
                            THEN call.response.body.errors
                            ELSE call.response.body.message

\* a 2xx answer whose body is not an envelope
MalformedEnvelope ==
    /\ Answered
    /\ call.response.status_code \in 200..299
    /\ \/ call.response.body.parse # "object"
       \/ call.response.body.success = Absent

\* C9: a 2xx body that cannot be parsed as an envelope fails with
\* RequestError and no other kind.
C9_MalformedEnvelopeIsRequestError ==
    MalformedEnvelope => call.inner.kind = "CTFdpyRequestException"

\* C10: in files.list and hints.list, exactly one of q and field supplied
\* fails with ValueError and sends no request; both or neither pass the check.
C10_QFieldPairing ==
    (call.phase # "none" /\ call.op \in {"files.list", "hints.list"}
                         /\ call.credentials \notin call.before)
        => IF (call.args.q = None) # (call.args.field = None)
           THEN Done /\ call.outcome.kind = "ValueError" /\ call.sent = 0
           ELSE Done => call.outcome.kind # "ValueError" /\ call.sent = 1

\* ------------------------------------------------------------------
\* Entity decoding over bounded raw objects
\* ------------------------------------------------------------------
\* raw file objects: every subset of the keys the file models read
RawFileObjects ==
    { i @@ t @@ l @@ s @@ c @@ ca @@ p @@ pa :
        i \in KeywordChoices("id", {1}),
        t \in KeywordChoices("type", FileTypes \cup {"other"}),
        l \in KeywordChoices("location", {"a"}),
        s \in KeywordChoices("sha1sum", {"s"}),
        c \in KeywordChoices("challenge_id", {1}),
        ca \in KeywordChoices("challenge", {1, 2}),
        p \in KeywordChoices("page_id", {1}),
        pa \in KeywordChoices("page", {1, 2}) }

\* raw hint objects: every subset of the keys the hint models read
RawHintObjects ==
    { i @@ t @@ c @@ co @@ ct @@ r :
        i \in KeywordChoices("id", {1}),
        t \in KeywordChoices("type", {"standard"}),
        c \in KeywordChoices("challenge_id", {1}),
        co \in KeywordChoices("cost", {0}),
        ct \in KeywordChoices("content", {"c"}),
        r \in KeywordChoices("requirements", {"r"}) }

InitDecode ==
    /\ non_admins = {}
    /\ generic403 = {}
    /\ call \in { [phase |-> "input", via |-> "file_adapter", v |-> v] :
                    v \in {JNull} \cup { JObj(r) : r \in RawFileObjects } }
                \cup { [phase |-> "input", via |-> "hint_adapter", v |-> v] :
                         v \in {JNull} \cup { JObj(r) : r \in RawHintObjects } }

\* file_adapter.validate_python(v)
DecodeFile ==
    /\ call.phase = "input"
    /\ call.via = "file_adapter"
    /\ call' = [phase |-> "decoded", via |-> call.via, v |-> call.v,
                result |-> file_adapter(call.v)]
    /\ UNCHANGED <<non_admins, generic403>>

\* hint_adapter.validate_python(v)
DecodeHint ==
    /\ call.phase = "input"
    /\ call.via = "hint_adapter"
    /\ call' = [phase |-> "decoded", via |-> call.via, v |-> call.v,
                result |-> hint_adapter(call.v)]
    /\ UNCHANGED <<non_admins, generic403>>

NextDecode ==
    \/ DecodeFile
    \/ DecodeHint

SpecDecode == InitDecode /\ [][NextDecode]_vars

\* ------------------------------------------------------------------
\* Properties of the payload-building methods
\* ------------------------------------------------------------------
\* the payload model a method constructs from its arguments, when it gets
\* as far as constructing one
ConstructedPayload(op, args) ==
    CASE op = "files.create" ->
            LET files == create_files(args) IN
            IF files.kind # "ok" \/ Len(files.value) = 0
            THEN [kind |-> "not_constructed"]
            ELSE CreateFilePayload(create_kwargs(args, files.value))
      [] op = "hints.create" ->
            CreateHintPayload([challenge_id |-> args.challenge_id, content |-> args.content,
                               cost |-> args.cost, type |-> args.type,
                               requirements |-> args.requirements])
      [] op = "hints.update" -> UpdateHintPayload(args.kwargs)

PayloadOps == {"files.create", "hints.create", "hints.update"}

\* C19: when files.create, hints.create or hints.update is entered with
\* arguments whose payload model fails validation, the call fails with
\* CTFdpyModelValidationError carrying the model's errors and issues no
\* request; a call that issued a request had its payload constructed.
C19_ValidationBeforeNetwork ==
    (Done /\ call.op \in PayloadOps /\ call.inner # NotInvoked) =>
        LET payload == ConstructedPayload(call.op, call.args) IN
        /\ payload.kind = "pydantic.ValidationError" =>
              /\ call.outcome = CTFdpyModelValidationError(payload.errors)
              /\ call.sent = 0
              /\ call.request = NoRequest
              /\ non_admins = call.before
        /\ call.sent = 1 => payload.kind = "ok"

\* hints.update with an empty content is refused before anything is sent
C19_Witness ==
    /\ Done
    /\ call.op = "hints.update"
    /\ call.inner # NotInvoked
    /\ call.args.kwargs = [content |-> Some("")]
    /\ call.outcome.kind = "CTFdpyModelValidationError"
    /\ call.sent = 0

\* ------------------------------------------------------------------
\* Properties of entity-returning methods
\* ------------------------------------------------------------------
\* the transport answered 2xx with an envelope whose success is true and
\* that carries data
SuccessEnvelope ==
    /\ Answered
    /\ IsSuccessStatus(call.response.status_code)
    /\ call.response.body.parse = "object"
    /\ call.response.body.success = JBool(TRUE)
    /\ call.response.body.data # Absent

EntityOps ==
    {"files.list", "files.create", "files.get",
     "hints.list", "hints.get", "hints.create", "hints.update"}

\* the entity decoder of an operation applied to the envelope's data
DecodedData(op, data) ==
    CASE op \in {"files.list", "files.create"} -> DecodeFileList(data)
      [] op = "files.get" -> file_adapter(data)
      [] op = "hints.list" -> DecodeHintList(data)
      [] op = "hints.get" -> hint_adapter(data)
      [] op \in {"hints.create", "hints.update"} -> Hint_model_validate(data)

\* C22: an entity-returning operation answered 2xx with success == true
\* returns (or fails as) its decoder applied to the envelope's data, for
\* lists element by element; a hint create or update whose data is a full
\* Hint returns that Hint.
C22_DecoderOnData ==
    (SuccessEnvelope /\ call.op \in EntityOps) =>
        call.outcome = DecodedData(call.op, call.response.body.data)

\* ------------------------------------------------------------------
\* Properties of payload construction
\* ------------------------------------------------------------------
Constructed == call.phase = "payload" /\ call.via = "CreateFilePayload"

\* the matching table of type, challenge_id and page_id
InMatchingTable(type, challenge_id, page_id) ==
    \/ type = "standard" /\ challenge_id = None /\ page_id = None
    \/ type = "challenge" /\ challenge_id # None /\ page_id = None
    \/ type = "page" /\ page_id # None /\ challenge_id = None

\* the rules of the table a combination breaks
ViolatedRules(type, challenge_id, page_id) ==
    (IF type = "standard" /\ (challenge_id # None \/ page_id # None)
     THEN {"Challenge ID and page ID must be None for standard files"} ELSE {})
    \cup (IF type = "challenge" /\ challenge_id = None
          THEN {"Challenge ID must be provided for challenge files"} ELSE {})
    \cup (IF type = "challenge" /\ page_id # None
          THEN {"Page ID must be None for challenge files"} ELSE {})
    \cup (IF type = "page" /\ page_id = None
          THEN {"Page ID must be provided for page files"} ELSE {})
    \cup (IF type = "page" /\ challenge_id # None
          THEN {"Challenge ID must be None for page files"} ELSE {})

\* keyword arguments that give the files, a type of FileType (or none) and
\* the ids under their own names only
PlainKwargs(kwargs) ==
    /\ "files" \in DOMAIN kwargs
    /\ DOMAIN kwargs \subseteq {"files", "type", "challenge_id", "page_id", "location"}
    /\ "type" \in DOMAIN kwargs =>
          (kwargs.type # None /\ Val(kwargs.type) \in FileTypes)

SuppliedType(kwargs) ==
    IF "type" \in DOMAIN kwargs THEN Val(kwargs.type) ELSE "standard"

\* C11: CreateFilePayload construction returns a payload only when its
\* (type, challenge_id, page_id) is in the matching table; for every supplied
\* combination outside the table it fails with a validation error whose one
\* message is a rule of the table that the combination breaks, and no payload
\* is produced.
C11_MatchingTable ==
    Constructed =>
        /\ call.result.kind = "ok" =>
              InMatchingTable(call.result.value.type, call.result.value.challenge_id,
                              call.result.value.page_id)
        /\ (/\ PlainKwargs(call.kwargs)
            /\ ~InMatchingTable(SuppliedType(call.kwargs),
                                FieldOrNone(call.kwargs, "challenge_id"),
                                FieldOrNone(call.kwargs, "page_id")))
           => /\ call.result.kind = "pydantic.ValidationError"
              /\ \E rule \in ViolatedRules(SuppliedType(call.kwargs),
                                           FieldOrNone(call.kwargs, "challenge_id"),
                                           FieldOrNone(call.kwargs, "page_id")) :
                    call.result.errors = {FieldError("", rule)}

\* a challenge file given a page id as well is refused
C11_Witness ==
    /\ Constructed
    /\ PlainKwargs(call.kwargs)
    /\ SuppliedType(call.kwargs) = "challenge"
    /\ FieldOrNone(call.kwargs, "challenge_id") = Some(1)
    /\ FieldOrNone(call.kwargs, "page_id") = Some(1)
    /\ call.result = ValidationError({FieldError("", "Page ID must be None for challenge files")})

Created == call.phase = "payload" /\ call.via = "files.create"

\* `preferred ?? alias`: the preferred value unless it is None
Coalesce(preferred, alias) == IF preferred # None THEN preferred ELSE alias

\* the keyword arguments with the alias key renamed to the field's name
Renamed(kwargs, alias, name) ==
    [k \in (DOMAIN kwargs \ {alias}) \cup {name} |->
        IF k = name THEN kwargs[alias] ELSE kwargs[k]]

\* C12: the payload's challenge_id is the supplied challenge_id when that is
\* not None (0 included) and the supplied challenge otherwise, and page_id
\* and page behave the same way, through the keyword arguments of
\* files.create and when CreateFilePayload is constructed with the alias key
\* in place of the field's name.
C12_AliasCoalescing ==
    /\ (Created /\ call.result.kind = "ok") =>
          /\ call.result.value.challenge_id
                = Coalesce(call.args.challenge_id, call.args.challenge)
          /\ call.result.value.page_id = Coalesce(call.args.page_id, call.args.page)
    /\ (Constructed /\ "challenge" \in DOMAIN call.kwargs
                    /\ "challenge_id" \notin DOMAIN call.kwargs) =>
          call.result = CreateFilePayload(Renamed(call.kwargs, "challenge", "challenge_id"))
    /\ (Constructed /\ "page" \in DOMAIN call.kwargs
                    /\ "page_id" \notin DOMAIN call.kwargs) =>
          call.result = CreateFilePayload(Renamed(call.kwargs, "page", "page_id"))

\* neither files nor file paths were given to files.create
NoFiles(args) ==
    /\ args.files = None \/ Val(args.files) = <<>>
    /\ args.file_paths = None \/ Val(args.file_paths) = <<>>

\* C13: files.create with no files and no file paths fails with ValueError
\* and sends no request, whatever the type and ids are: the test for an
\* empty file list comes before the type/id consistency check.
C13_NoFilesIsValueError ==
    (Created /\ NoFiles(call.args)) =>
        /\ call.result = Raise("ValueError")
        /\ call.method.outcome = Raise("ValueError")
        /\ call.method.sent = 0
        /\ call.method.request = NoRequest

\* no files, and a challenge type without a challenge id
C13_Witness ==
    /\ Created
    /\ NoFiles(call.args)
    /\ call.args.type = Some("challenge")
    /\ call.args.challenge_id = None
    /\ call.args.challenge = None
    /\ call.method.outcome = Raise("ValueError")

LocationRule == "Location cannot be specified when multiple files are provided"

\* the supplied combination is in the matching table
SuppliedInTable(kwargs) ==
    InMatchingTable(SuppliedType(kwargs), FieldOrNone(kwargs, "challenge_id"),
                    FieldOrNone(kwargs, "page_id"))

\* C14: CreateFilePayload construction with a location and more than one file
\* fails with a validation error (the location rule when nothing else is
\* wrong); with no location, or with exactly one file, the location rule is
\* never reported and an otherwise valid construction returns the payload.
C14_LocationExclusivity ==
    (Constructed /\ "files" \in DOMAIN call.kwargs) =>
        LET multiple == Len(call.kwargs.files) > 1
            located == FieldOrNone(call.kwargs, "location") # None
            valid == PlainKwargs(call.kwargs) /\ SuppliedInTable(call.kwargs)
        IN
        /\ (located /\ multiple) => call.result.kind = "pydantic.ValidationError"
        /\ (located /\ multiple /\ valid) =>
              call.result = ValidationError({FieldError("", LocationRule)})
        /\ (~located \/ Len(call.kwargs.files) = 1) =>
              \/ call.result.kind = "ok"
              \/ FieldError("", LocationRule) \notin call.result.errors
        /\ ((~located \/ Len(call.kwargs.files) = 1) /\ valid
                /\ Len(call.kwargs.files) > 0) =>
              call.result.kind = "ok"

\* two files and a location
C14_Witness ==
    /\ Constructed
    /\ "files" \in DOMAIN call.kwargs
    /\ Len(call.kwargs.files) = 2
    /\ FieldOrNone(call.kwargs, "location") = Some("loc")
    /\ call.result = ValidationError({FieldError("", LocationRule)})

Serialized == call.phase = "serialized"

\* the optional fields of a payload that are not None
NonNullFields(payload) ==
    { f \in {"challenge_id", "page_id", "location"} : payload[f] # None }

OnlyFiles(args) ==
    /\ args.files # None
    /\ Len(Val(args.files)) > 0
    /\ args.file_paths = None
    /\ args.type = None
    /\ args.challenge_id = None
    /\ args.challenge = None
    /\ args.page_id = None
    /\ args.page = None
    /\ args.location = None

\* C23: files.create with at least one file and with type, challenge_id,
\* challenge, page_id, page and location all omitted builds a payload, and
\* the payload's type, and its form field type, is standard.
C23_TypeDefaultsToStandard ==
    /\ (Created /\ OnlyFiles(call.args)) =>
          /\ call.result.kind = "ok"
          /\ call.result.value.type = "standard"
    /\ (Serialized /\ call.via = "files.create" /\ OnlyFiles(call.supplied)) =>
          call.output.data = [type |-> "standard"]

\* ------------------------------------------------------------------
\* Properties of entity decoding
\* ------------------------------------------------------------------
DecodedFile == call.phase = "decoded" /\ call.via = "file_adapter"
DecodedHint == call.phase = "decoded" /\ call.via = "hint_adapter"

\* the class each value of the discriminator selects
VariantOf(type) ==
    CASE type = "standard" -> "StandardFile"
      [] type = "challenge" -> "ChallengeFile"
      [] type = "page" -> "PageFile"

\* the raw object has what the variant of its type requires
FileDecodable(raw) ==
    /\ "type" \in DOMAIN raw
    /\ raw.type \in FileTypes
    /\ {"id", "location", "sha1sum"} \subseteq DOMAIN raw
    /\ raw.type = "challenge" => {"challenge_id", "challenge"} \cap DOMAIN raw # {}
    /\ raw.type = "page" => {"page_id", "page"} \cap DOMAIN raw # {}

\* C16: decoding a raw file object dispatches on raw.type alone: it returns
\* the variant of that type when the base fields and the variant's own field
\* are present, and fails with a validation error when type is absent or
\* unknown, or a base field or the variant's field is missing.
C16_DecodeFileDispatch ==
    (DecodedFile /\ call.v.t = "obj") =>
        IF FileDecodable(call.v.o)
        THEN /\ call.result.kind = "ok"
             /\ call.result.value.cls = VariantOf(call.v.o.type)
             /\ call.result.value.type = call.v.o.type
        ELSE call.result = Raise("pydantic.ValidationError")

\* a page object without sha1sum is refused, one with page only is a PageFile
C16_Witness ==
    /\ DecodedFile
    /\ call.v.t = "obj"
    /\ DOMAIN call.v.o = {"id", "type", "location", "sha1sum", "page", "challenge_id"}
    /\ call.v.o.type = "page"
    /\ call.result.kind = "ok"
    /\ call.result.value.cls = "PageFile"

\* C17: a decoded challenge file takes challenge_id from raw.challenge_id
\* when that key is present and from raw.challenge otherwise, also when both
\* are present with different values; page files do the same with page_id
\* and page.
C17_DecodeAliasPrecedence ==
    (DecodedFile /\ call.result.kind = "ok") =>
        /\ call.result.value.cls = "ChallengeFile" =>
              call.result.value.challenge_id
                 = IF "challenge_id" \in DOMAIN call.v.o THEN call.v.o.challenge_id
                   ELSE call.v.o.challenge
        /\ call.result.value.cls = "PageFile" =>
              call.result.value.page_id
                 = IF "page_id" \in DOMAIN call.v.o THEN call.v.o.page_id
                   ELSE call.v.o.page

\* both keys present with different values
C17_Witness ==
    /\ DecodedFile
    /\ call.result.kind = "ok"
    /\ call.result.value.cls = "ChallengeFile"
    /\ {"challenge_id", "challenge"} \subseteq DOMAIN call.v.o
    /\ call.v.o.challenge_id = 1
    /\ call.v.o.challenge = 2
    /\ call.result.value.challenge_id = 1

Forbidden == { c \in Callers : call[c].forbidden }

\* every caller in flight at once: each found the cache empty and sent
AllInFlight == \A c \in Callers : call[c].phase = "inflight"

\* once every call has ended and one of them was answered 403, the cache
\* holds the credential, once
C20_FinalCache ==
    ((\A c \in Callers : call[c].phase = "done") /\ Forbidden # {}) =>
        non_admins = {SharedCredential}

\* the requests answered 403 are at most the calls in flight at the first insert
C20_BoundedForbidden ==
    \A c \in Callers :
        call[c].inserted => Cardinality(Forbidden) <= call[c].inflight

\* a call that starts after an insert sends no request
C20_NoRequestAfterInsert ==
    \A c \in Callers :
        call[c].cached => (call[c].sent = 0 /\ call[c].outcome = "CTFdpyAdminOnlyException")

\* C20: for callers under one credential that interleave at the network
\* wait, once all calls have ended with a 403 among them the cache holds the
\* credential as its single entry, the requests answered 403 are at most the
\* calls in flight when the first insert happened, and a call that starts
\* after an insert sends no request.
C20_ConcurrentSafe ==
    /\ C20_FinalCache
    /\ C20_BoundedForbidden
    /\ C20_NoRequestAfterInsert


\* ------------------------------------------------------------------
\* Properties of the team methods
\* ------------------------------------------------------------------
\* what the gate does with a blocking method whose request is answered tr
BlockingGate(before, client, args, tr) ==
    admin_only(before, client, teams_create(args, tr))

CredentialId(client) ==
    IF client.token # None THEN Val(client.token) ELSE client.username

\* the instance was refused by the cache: AdminOnly without a request
Refused(i) ==
    /\ call[i].phase = "done"
    /\ call[i].sent = 0
    /\ call[i].outcome = "CTFdpyAdminOnlyException"

\* C24: an instance that enters after another instance's call inserted a
\* credential is refused with AdminOnly, without a request, exactly when its
\* credential identifier (token if set, else username) equals an inserted
\* one, whatever server URL either client points at; an instance with a
\* different identifier sends its request as before.
C24_SharedCacheByCredential ==
    \A i \in Instances :
        call[i].phase # "idle" =>
            IF \E j \in call[i].seen :
                  CredentialId(call[j].client) = CredentialId(call[i].client)
            THEN Refused(i)
            ELSE call[i].sent = 1

\* the client of server a inserted tokA, the client of server b with the
\* same token is refused, and a client with another identifier has sent
C24_Witness ==
    \E i, j, k \in Instances :
        /\ call[j].inserted
        /\ call[j].client.url = "http://a"
        /\ call[i].client.url = "http://b"
        /\ CredentialId(call[i].client) = CredentialId(call[j].client)
        /\ call[i].seen = {j}
        /\ Refused(i)
        /\ CredentialId(call[k].client) # CredentialId(call[j].client)
        /\ call[k].seen = {j}
        /\ call[k].sent = 1

====
